---- MODULE Spec2Model ----
(***************************************************************************)
(* Model of src/src/main.rs: Cell<T> (copy-in / copy-out interior          *)
(* mutability) and RefCell<T> (run-time checked borrows) with its guards   *)
(* Ref and RefMut.  One RefCell<int> and one Cell<int> are driven by a     *)
(* single-threaded client that may call any operation in any order.        *)
(*   Spec        the client releases every guard through its Drop impl     *)
(*   SpecLeak    the client may also give up a Ref without dropping it     *)
(*   SpecThreads test::concurrent_get_set, two threads sharing the Cell    *)
(***************************************************************************)
EXTENDS Integers, FiniteSets, Sequences, TLC

\* ---------------------------------------------------------------- bounds
MaxViews == 3          \* guard objects the client can hold at once
MaxVal == 2            \* interior values range over 0..MaxVal
ThreadIters == 3       \* iterations of each thread of test::concurrent_get_set

Values == 0 .. MaxVal
GuardIds == 1 .. MaxViews
Threads == {1, 2}      \* the two spawned threads jh1, jh2
NoVal == -1            \* "no value" marker of the observation records

\* usize, the type of the count of RefState::Shared.  The width is scaled
\* down so that the whole range can be explored; arithmetic is modulo
\* 2^UsizeBits, as in a build without overflow checks.
UsizeBits == 3
UsizeMod == 2 ^ UsizeBits
UsizeMax == UsizeMod - 1
usize_add(a, b) == (a + b) % UsizeMod
usize_sub(a, b) == (a - b) % UsizeMod

\* ------------------------------------------------------------- RefState
Unshared == [tag |-> "Unshared", n |-> 0]
Shared(k) == [tag |-> "Shared", n |-> k]
Exclusive == [tag |-> "Exclusive", n |-> 0]

\* ----------------------------------------------------------------- Cell
Cell_new(value) == [value |-> value]

Cell_set_keep(self, value) == self
Cell_set(self, value) == [self EXCEPT !.value = value]

Cell_get(self) == self.value

\* -------------------------------------------------------------- RefCell
RefCell_new_zero(value) == [value |-> value, state |-> Cell_new(Shared(0))]
RefCell_new(value) == [value |-> value, state |-> Cell_new(Unshared)]

\* Each operation returns the cell after the call and whether a guard
\* was returned (Some) or not (None).
borrow_mut_lax(self) ==
    IF Cell_get(self.state) # Exclusive
    THEN [self |-> [self EXCEPT !.state = Cell_set(@, Exclusive)], some |-> TRUE]
    ELSE [self |-> self, some |-> FALSE]
borrow_mut_clobber(self) ==
    IF Cell_get(self.state) = Unshared
    THEN [self |-> [self EXCEPT !.state = Cell_set(@, Exclusive)], some |-> TRUE]
    ELSE [self |-> [self EXCEPT !.state = Cell_set(@, Exclusive)], some |-> FALSE]
borrow_mut(self) ==
    IF Cell_get(self.state) = Unshared
    THEN [self |-> [self EXCEPT !.state = Cell_set(@, Exclusive)], some |-> TRUE]
    ELSE [self |-> self, some |-> FALSE]

borrow_any(self) ==
    LET s == Cell_get(self.state) IN
    CASE s.tag = "Unshared" ->
           [self |-> [self EXCEPT !.state = Cell_set(@, Shared(1))], some |-> TRUE]
      [] s.tag = "Shared" ->
           [self |-> [self EXCEPT !.state = Cell_set(@, Shared(s.n + 1))], some |-> TRUE]
      [] s.tag = "Exclusive" ->
           [self |-> [self EXCEPT !.state = Cell_set(@, Shared(1))], some |-> TRUE]
borrow_reset(self) ==
    LET s == Cell_get(self.state) IN
    CASE s.tag = "Unshared" ->
           [self |-> [self EXCEPT !.state = Cell_set(@, Shared(1))], some |-> TRUE]
      [] s.tag = "Shared" ->
           [self |-> [self EXCEPT !.state = Cell_set(@, Shared(1))], some |-> TRUE]
      [] s.tag = "Exclusive" ->
           [self |-> self, some |-> FALSE]
borrow(self) ==
    LET s == Cell_get(self.state) IN
    CASE s.tag = "Unshared" ->
           [self |-> [self EXCEPT !.state = Cell_set(@, Shared(1))], some |-> TRUE]
      [] s.tag = "Shared" ->
           [self |-> [self EXCEPT !.state = Cell_set(@, Shared(usize_add(s.n, 1)))],
            some |-> TRUE]
      [] s.tag = "Exclusive" ->
           [self |-> self, some |-> FALSE]

\* ------------------------------------------------------------------ Ref
Ref_deref(refcell) == refcell.value

\* drop returns the cell after the call and whether unreachable!() was hit.
Ref_drop_clear(refcell) ==
    LET s == Cell_get(refcell.state) IN
    CASE s.tag \in {"Exclusive", "Unshared"} ->
           [self |-> refcell, panic |-> TRUE]
      [] s.tag = "Shared" ->
           [self |-> [refcell EXCEPT !.state = Cell_set(@, Unshared)], panic |-> FALSE]
Ref_drop_zero(refcell) ==
    LET s == Cell_get(refcell.state) IN
    CASE s.tag \in {"Exclusive", "Unshared"} ->
           [self |-> refcell, panic |-> TRUE]
      [] s.tag = "Shared" ->
           [self |-> [refcell EXCEPT !.state = Cell_set(@, Shared(s.n - 1))], panic |-> FALSE]
Ref_drop_stuck(refcell) ==
    LET s == Cell_get(refcell.state) IN
    CASE s.tag \in {"Exclusive", "Unshared"} ->
           [self |-> refcell, panic |-> TRUE]
      [] s = Shared(1) ->
           [self |-> [refcell EXCEPT !.state = Cell_set(@, Unshared)], panic |-> FALSE]
      [] s.tag = "Shared" /\ s.n # 1 ->
           [self |-> refcell, panic |-> FALSE]
Ref_drop(refcell) ==
    LET s == Cell_get(refcell.state) IN
    CASE s.tag \in {"Exclusive", "Unshared"} ->
           [self |-> refcell, panic |-> TRUE]
      [] s = Shared(1) ->
           [self |-> [refcell EXCEPT !.state = Cell_set(@, Unshared)], panic |-> FALSE]
      [] s.tag = "Shared" /\ s.n # 1 ->
           [self |-> [refcell EXCEPT !.state = Cell_set(@, Shared(usize_sub(s.n, 1)))],
            panic |-> FALSE]

\* --------------------------------------------------------------- RefMut
RefMut_deref(refcell) == refcell.value

\* deref_mut hands out &mut T; the client stores v through it.
RefMut_deref_mut_lost(refcell, v) == refcell
RefMut_deref_mut_release(refcell, v) ==
    [refcell EXCEPT !.value = v, !.state = Cell_set(@, Unshared)]
RefMut_deref_mut(refcell, v) == [refcell EXCEPT !.value = v]

RefMut_drop_stay(refcell) ==
    LET s == Cell_get(refcell.state) IN
    CASE s.tag \in {"Shared", "Unshared"} ->
           [self |-> refcell, panic |-> TRUE]
      [] s.tag = "Exclusive" ->
           [self |-> refcell, panic |-> FALSE]
RefMut_drop(refcell) ==
    LET s == Cell_get(refcell.state) IN
    CASE s.tag \in {"Shared", "Unshared"} ->
           [self |-> refcell, panic |-> TRUE]
      [] s.tag = "Exclusive" ->
           [self |-> [refcell EXCEPT !.state = Cell_set(@, Unshared)], panic |-> FALSE]

\* ---------------------------------------------------------------- state
VARIABLES
    refcell,    \* the RefCell<int>: [value, state : Cell<RefState>]
    refs,       \* ids of the live Ref guards borrowed from refcell
    refmuts,    \* ids of the live RefMut guards borrowed from refcell
    panicked,   \* TRUE once an unreachable!() has been executed
    last,       \* observation of the most recent RefCell / guard operation
    written,    \* last value stored through a RefMut (NoVal: none yet)
    epoch,      \* shared borrows and releases since the cell was last Unshared
    denied,     \* requests denied and not granted since: [mut, shared]
    cell,       \* the Cell<int>
    cellLog,    \* observation of the most recent Cell operation
    thr,        \* per thread sharing cell: [pc, x (its local), i (iterations done)]
    first       \* the client's local bound to the latest cell.get() (NoVal: none)

vars == <<refcell, refs, refmuts, panicked, last, written, epoch, denied,
          cell, cellLog, thr, first>>
cellVars == <<cell, cellLog, thr, first>>
refcellVars == <<refcell, refs, refmuts, panicked, last, written, epoch, denied>>

state == Cell_get(refcell.state)

Free == GuardIds \ (refs \cup refmuts)
NewId == CHOOSE g \in Free : \A h \in Free : g <= h

Obs(op, some, val) ==
    [op |-> op, pre |-> state, some |-> some, val |-> val,
     preRefs |-> refs, preMuts |-> refmuts]

NoEpoch == [grants |-> 0, order |-> <<>>, mixed |-> FALSE]

NoThreads == [t \in Threads |-> [pc |-> "none", x |-> 0, i |-> 0]]

Init ==
    /\ thr = NoThreads
    /\ first = NoVal
    /\ \E v \in Values : refcell = RefCell_new(v)
    /\ refs = {}
    /\ refmuts = {}
    /\ panicked = FALSE
    /\ last = [op |-> "new", pre |-> Unshared, some |-> FALSE, val |-> NoVal,
               preRefs |-> {}, preMuts |-> {}]
    /\ written = NoVal
    /\ epoch = NoEpoch
    /\ denied = [mut |-> FALSE, shared |-> FALSE]
    /\ \E v \in Values :
         /\ cell = Cell_new(v)
         /\ cellLog = [op |-> "new", arg |-> v, ret |-> NoVal, sets |-> FALSE]

\* ------------------------------------------------------------- actions
BorrowMut ==
    /\ ~panicked
    /\ LET r == borrow_mut(refcell) IN
         /\ r.some => Free # {}
         /\ refcell' = r.self
         /\ refmuts' = IF r.some THEN refmuts \cup {NewId} ELSE refmuts
         /\ last' = Obs("borrow_mut", r.some, NoVal)
         /\ epoch' = IF r.some THEN NoEpoch ELSE epoch
         /\ denied' = [denied EXCEPT !.mut = ~r.some]
    /\ UNCHANGED <<refs, panicked, written, cellVars>>

\* As Borrow, but the call waits until no exclusive view is live.
Borrow_wait ==
    /\ ~panicked
    /\ state # Exclusive
    /\ LET r == borrow(refcell) IN
         /\ r.some => Free # {}
         /\ refcell' = r.self
         /\ refs' = IF r.some THEN refs \cup {NewId} ELSE refs
         /\ last' = Obs("borrow", r.some, NoVal)
         /\ epoch' = IF ~r.some THEN epoch
                     ELSE IF state = Unshared
                          THEN [grants |-> 1, order |-> <<>>, mixed |-> FALSE]
                          ELSE IF epoch.order # <<>> \/ epoch.mixed
                               THEN [grants |-> 0, order |-> <<>>, mixed |-> TRUE]
                               ELSE [epoch EXCEPT !.grants = @ + 1]
         /\ denied' = [denied EXCEPT !.shared = ~r.some]
    /\ UNCHANGED <<refmuts, panicked, written, cellVars>>
Borrow ==
    /\ ~panicked
    /\ LET r == borrow(refcell) IN
         /\ r.some => Free # {}
         /\ refcell' = r.self
         /\ refs' = IF r.some THEN refs \cup {NewId} ELSE refs
         /\ last' = Obs("borrow", r.some, NoVal)
         /\ epoch' = IF ~r.some THEN epoch
                     ELSE IF state = Unshared
                          THEN [grants |-> 1, order |-> <<>>, mixed |-> FALSE]
                          ELSE IF epoch.order # <<>> \/ epoch.mixed
                               THEN [grants |-> 0, order |-> <<>>, mixed |-> TRUE]
                               ELSE [epoch EXCEPT !.grants = @ + 1]
         /\ denied' = [denied EXCEPT !.shared = ~r.some]
    /\ UNCHANGED <<refmuts, panicked, written, cellVars>>

DropRef(g) ==
    /\ ~panicked
    /\ g \in refs
    /\ LET r == Ref_drop(refcell) IN
         /\ refcell' = r.self
         /\ panicked' = r.panic
    /\ refs' = refs \ {g}
    /\ last' = Obs("drop_ref", FALSE, NoVal)
    /\ epoch' = IF epoch.mixed THEN epoch
                ELSE [epoch EXCEPT !.order = Append(@, g)]
    /\ UNCHANGED <<refmuts, written, denied, cellVars>>

DropRefMut(g) ==
    /\ ~panicked
    /\ g \in refmuts
    /\ LET r == RefMut_drop(refcell) IN
         /\ refcell' = r.self
         /\ panicked' = r.panic
    /\ refmuts' = refmuts \ {g}
    /\ last' = Obs("drop_refmut", FALSE, NoVal)
    /\ UNCHANGED <<refs, written, epoch, denied, cellVars>>

ReadRef(g) ==
    /\ ~panicked
    /\ g \in refs
    /\ last' = Obs("ref_deref", FALSE, Ref_deref(refcell))
    /\ UNCHANGED <<refcell, refs, refmuts, panicked, written, epoch, denied, cellVars>>

ReadRefMut(g) ==
    /\ ~panicked
    /\ g \in refmuts
    /\ last' = Obs("refmut_deref", FALSE, RefMut_deref(refcell))
    /\ UNCHANGED <<refcell, refs, refmuts, panicked, written, epoch, denied, cellVars>>

WriteRefMut(g, v) ==
    /\ ~panicked
    /\ g \in refmuts
    /\ refcell' = RefMut_deref_mut(refcell, v)
    /\ written' = v
    /\ last' = Obs("refmut_deref_mut", FALSE, v)
    /\ UNCHANGED <<refs, refmuts, panicked, epoch, denied, cellVars>>

\* As CellSet, but the value handed out by get still aliases the interior.
CellSet_alias(v) ==
    /\ cell' = Cell_set(cell, v)
    /\ cellLog' = [op |-> "set", arg |-> v, ret |-> NoVal, sets |-> TRUE]
    /\ first' = IF first = NoVal THEN first ELSE v
    /\ UNCHANGED <<refcellVars, thr>>
CellSet(v) ==
    /\ cell' = Cell_set(cell, v)
    /\ cellLog' = [op |-> "set", arg |-> v, ret |-> NoVal, sets |-> TRUE]
    /\ UNCHANGED <<refcellVars, thr, first>>

\* let first = cell.get(): get copies the value out (T: Copy).
CellGet ==
    /\ cell' = cell
    /\ cellLog' = [cellLog EXCEPT !.op = "get", !.ret = Cell_get(cell)]
    /\ first' = Cell_get(cell)
    /\ UNCHANGED <<refcellVars, thr>>

Next ==
    \/ BorrowMut
    \/ Borrow
    \/ \E g \in GuardIds : DropRef(g)
    \/ \E g \in GuardIds : DropRefMut(g)
    \/ \E g \in GuardIds : ReadRef(g)
    \/ \E g \in GuardIds : ReadRefMut(g)
    \/ \E g \in GuardIds, v \in Values : WriteRefMut(g, v)
    \/ \E v \in Values : CellSet(v)
    \/ CellGet

Spec == Init /\ [][Next]_vars

\* ------------------------------------------------- leaked guards
\* A client may give up a Ref without running its destructor
\* (core::mem::forget): the guard is gone, Drop for Ref never runs and the
\* count keeps the unit the guard stood for.
ForgetRef(g) ==
    /\ ~panicked
    /\ g \in refs
    /\ refs' = refs \ {g}
    /\ last' = Obs("forget_ref", FALSE, NoVal)
    /\ epoch' = [grants |-> 0, order |-> <<>>, mixed |-> TRUE]
    /\ UNCHANGED <<refcell, refmuts, panicked, written, denied, cellVars>>

\* Shared(n + 1) with n = usize::MAX: a build with overflow checks panics in
\* borrow before state.set is called; a build without them wraps, which is
\* what borrow computes.  Either build may be the one running.
BorrowOverflowPanic ==
    /\ ~panicked
    /\ state = Shared(UsizeMax)
    /\ panicked' = TRUE
    /\ last' = Obs("borrow_overflow", FALSE, NoVal)
    /\ UNCHANGED <<refcell, refs, refmuts, written, epoch, denied, cellVars>>

NextLeak ==
    \/ Next
    \/ \E g \in GuardIds : ForgetRef(g)
    \/ BorrowOverflowPanic

SpecLeak == Init /\ [][NextLeak]_vars

\* ------------------------------------------- test::concurrent_get_set
\* Two threads share one Cell::new(0) through an Arc; each runs
\* ThreadIters times "let x = c.get(); c.set(x + 1)".  Nothing orders the
\* two threads' accesses, so the word-sized get and set of one thread
\* interleave freely with those of the other; main joins both threads and
\* then reads the cell.
InitThreads ==
    /\ refcell = RefCell_new(0)
    /\ refs = {}
    /\ refmuts = {}
    /\ panicked = FALSE
    /\ last = [op |-> "new", pre |-> Unshared, some |-> FALSE, val |-> NoVal,
               preRefs |-> {}, preMuts |-> {}]
    /\ written = NoVal
    /\ epoch = NoEpoch
    /\ denied = [mut |-> FALSE, shared |-> FALSE]
    /\ cell = Cell_new(0)
    /\ cellLog = [op |-> "new", arg |-> 0, ret |-> NoVal, sets |-> FALSE]
    /\ thr = [t \in Threads |-> [pc |-> "get", x |-> 0, i |-> 0]]
    /\ first = NoVal

ThreadGet(t) ==
    /\ thr[t].pc = "get"
    /\ thr' = [thr EXCEPT ![t].x = Cell_get(cell), ![t].pc = "set"]
    /\ UNCHANGED <<refcellVars, cell, cellLog, first>>

ThreadSet(t) ==
    /\ thr[t].pc = "set"
    /\ cell' = Cell_set(cell, thr[t].x + 1)
    /\ thr' = [thr EXCEPT ![t].i = @ + 1,
                          ![t].pc = IF thr[t].i + 1 = ThreadIters THEN "done" ELSE "get"]
    /\ UNCHANGED <<refcellVars, cellLog, first>>

MainGet ==
    /\ \A t \in Threads : thr[t].pc = "done"
    /\ cellLog.op # "get"
    /\ cellLog' = [cellLog EXCEPT !.op = "get", !.ret = Cell_get(cell)]
    /\ UNCHANGED <<refcellVars, cell, thr, first>>

NextThreads ==
    \/ \E t \in Threads : ThreadGet(t)
    \/ \E t \in Threads : ThreadSet(t)
    \/ MainGet

SpecThreads == InitThreads /\ [][NextThreads]_vars

TypeOK ==
    /\ refcell.value \in Values
    /\ state.tag \in {"Unshared", "Shared", "Exclusive"}
    /\ refs \subseteq GuardIds
    /\ refmuts \subseteq GuardIds
    /\ panicked \in BOOLEAN
    /\ cell.value \in Values

\* ------------------------------------------------------------ properties

\* C1: a live exclusive view (RefMut) never coexists with any other live
\* view of the same cell: if a RefMut is live it is the only RefMut and no
\* Ref is live.
C1_ExclusiveIsAlone ==
    refmuts # {} => Cardinality(refmuts) = 1 /\ refs = {}
C1_Witness ==
    refmuts # {} /\ last.op = "borrow_mut" /\ last.some

\* C2: borrow_mut returns a view iff the state just before the call was
\* Unshared; a granted call leaves the state Exclusive.
C2_BorrowMutIffUnshared ==
    last.op = "borrow_mut" =>
        /\ last.some <=> last.pre = Unshared
        /\ last.some => state = Exclusive
C2_Witness ==
    last.op = "borrow_mut" /\ last.some /\ state = Exclusive

\* C3: borrow returns a view iff the state just before the call was Unshared
\* or Shared(n), and no view iff it was Exclusive; a grant from Unshared
\* leaves Shared(1), a grant from Shared(n) leaves Shared(n+1).
C3_BorrowUnlessExclusive ==
    last.op = "borrow" =>
        /\ last.some <=> last.pre.tag \in {"Unshared", "Shared"}
        /\ ~last.some <=> last.pre = Exclusive
        /\ last.some /\ last.pre = Unshared => state = Shared(1)
        /\ last.some /\ last.pre.tag = "Shared" => state = Shared(last.pre.n + 1)
C3_Witness ==
    last.op = "borrow" /\ last.some /\ last.pre = Shared(2) /\ state = Shared(3)

\* C4: the borrow state equals the set of live views: Unshared iff no view
\* is live, Shared(n) iff n Refs and no RefMut are live, Exclusive iff one
\* RefMut and no Ref is live.
C4_StateCountsViews ==
    /\ state = Unshared <=> (refs = {} /\ refmuts = {})
    /\ state.tag = "Shared" <=> (refs # {} /\ refmuts = {})
    /\ state.tag = "Shared" => state.n = Cardinality(refs)
    /\ state = Exclusive <=> (Cardinality(refmuts) = 1 /\ refs = {})
C4_Witness ==
    state = Shared(2) /\ Cardinality(refs) = 2 /\ last.op = "drop_ref"

\* C5: releasing a Ref in state Shared(1) sets the state to Unshared, and in
\* state Shared(n), n > 1, sets it to Shared(n-1).
C5_ReleaseShared ==
    last.op = "drop_ref" =>
        /\ last.pre = Shared(1) => state = Unshared
        /\ (last.pre.tag = "Shared" /\ last.pre.n > 1) => state = Shared(last.pre.n - 1)
C5_Witness ==
    last.op = "drop_ref" /\ last.pre = Shared(3) /\ state = Shared(2)

\* C6: releasing the sole RefMut sets the state to Unshared, and from there
\* both borrow and borrow_mut are granted.
C6_ReleaseExclusive ==
    (last.op = "drop_refmut" /\ Cardinality(last.preMuts) = 1) =>
        /\ state = Unshared
        /\ borrow(refcell).some
        /\ borrow_mut(refcell).some
C6_Witness ==
    last.op = "drop_refmut" /\ last.preMuts = {1} /\ last.pre = Exclusive

\* C7: a denied request changes nothing: borrow in state Exclusive, and
\* borrow_mut in state Shared(n) or Exclusive, return no view and leave the
\* borrow state and the sets of live views as they were.
C7_DenialChangesNothing ==
    ((last.op = "borrow" /\ last.pre = Exclusive)
       \/ (last.op = "borrow_mut" /\ last.pre.tag \in {"Shared", "Exclusive"}))
    => (/\ ~last.some
        /\ state = last.pre
        /\ refs = last.preRefs
        /\ refmuts = last.preMuts)
C7_Witness ==
    last.op = "borrow_mut" /\ last.pre = Shared(2) /\ ~last.some

\* C8: a value written through a RefMut is what every later Ref reads until
\* the next write; a second Ref granted while the first is live brings the
\* count to 2; borrow_mut is denied while any Ref is live.
C8_WrittenValueIsRead ==
    /\ (last.op = "ref_deref" /\ written # NoVal) => last.val = written
    /\ (last.op = "borrow" /\ last.some /\ Cardinality(last.preRefs) = 1)
          => state = Shared(2)
    /\ (last.op = "borrow_mut" /\ last.preRefs # {}) => ~last.some
C8_Witness ==
    /\ last.op = "ref_deref"
    /\ written = 1
    /\ last.val = 1
    /\ Cardinality(refs) = 2

\* C9: from Unshared, the i-th of k borrow calls made with no release in
\* between leaves Shared(i), and releasing all k views in any order leaves
\* the state Unshared.
C9_ReleaseAllAnyOrder ==
    (~epoch.mixed /\ epoch.grants >= 1) =>
        /\ epoch.order = <<>> => state = Shared(epoch.grants)
        /\ Len(epoch.order) = epoch.grants => state = Unshared
C9_Witness ==
    /\ ~epoch.mixed
    /\ epoch.grants = 3
    /\ epoch.order = <<2, 3, 1>>
    /\ state = Unshared

\* C10: Cell::get returns the value of the most recent set(v), or the value
\* given to Cell::new when no set has been made.
C10_GetReturnsLastSet ==
    cellLog.op = "get" => cellLog.ret = cellLog.arg
C10_Witness ==
    cellLog.op = "get" /\ cellLog.sets /\ cellLog.ret = cellLog.arg

\* C11: when two threads sharing one Cell initialised to 0 each run
\* ThreadIters times "get, then set(value + 1)", the get made after both
\* threads have finished returns 2 * ThreadIters (no increment is lost).
C11_NoLostIncrement ==
    ((\A t \in Threads : thr[t].pc = "done") /\ cellLog.op = "get")
        => cellLog.ret = 2 * ThreadIters

\* C12: the value returned by Cell::get is an independent copy: a set on
\* the cell leaves a value previously obtained from get unchanged.
C12_GetIsACopy ==
    [][cellLog'.op = "set" => first' = first]_vars
C12_Witness ==
    first # NoVal /\ cellLog.op = "set" /\ Cell_get(cell) # first

\* C20: the shared count never wraps around: a borrow granted in state
\* Shared(usize::MAX) leaves a Shared state whose count is not smaller than
\* the number of live Refs (in particular not Shared(0)), so that while a
\* Ref is live the state is never Unshared and borrow_mut is never granted.
C20_CountNeverWraps ==
    /\ (last.op = "borrow" /\ last.some /\ last.pre = Shared(UsizeMax))
          => (state.tag = "Shared" /\ state # Shared(0)
              /\ state.n >= Cardinality(refs))
    /\ refs # {} => (state # Unshared /\ ~borrow_mut(refcell).some)

\* C13: the unreachable!() branches of the release logic are never executed:
\* whenever a Ref is released the state before is Shared(n) with n >= 1, and
\* whenever a RefMut is released the state before is Exclusive.
C13_ReleaseNeverUnreachable ==
    /\ ~panicked
    /\ last.op = "drop_ref" => (last.pre.tag = "Shared" /\ last.pre.n >= 1)
    /\ last.op = "drop_refmut" => last.pre = Exclusive
C13_Witness ==
    /\ last.op = "drop_ref"
    /\ last.pre = Shared(1)
    /\ ~panicked
    /\ written # NoVal

\* C14: a freshly constructed RefCell is Unshared, and Shared(0) is never
\* reachable: whenever the state is Shared(n), n >= 1, the release of the
\* last Ref giving Unshared.
C14_NoSharedZero ==
    /\ last.op = "new" => state = Unshared
    /\ state # Shared(0)
    /\ state.tag = "Shared" => state.n >= 1
    /\ (last.op = "drop_ref" /\ last.pre = Shared(1)) => state = Unshared
C14_Witness ==
    last.op = "drop_ref" /\ last.pre = Shared(1) /\ state = Unshared /\ refs = {}

C16_NeverBlocks ==
    /\ (~panicked /\ Free # {}) => (ENABLED Borrow /\ ENABLED BorrowMut)
    /\ last.op = "borrow" =>
          IF last.some
          THEN Cardinality(refs \ last.preRefs) = 1 /\ refmuts = last.preMuts
          ELSE refs = last.preRefs /\ refmuts = last.preMuts /\ state = last.pre
    /\ last.op = "borrow_mut" =>
          IF last.some
          THEN Cardinality(refmuts \ last.preMuts) = 1 /\ refs = last.preRefs
          ELSE refs = last.preRefs /\ refmuts = last.preMuts /\ state = last.pre
C16_Witness ==
    /\ last.op = "borrow"
    /\ ~last.some
    /\ last.pre = Exclusive
    /\ refmuts # {}
    /\ Free # {}

\* C17: borrow denial is recoverable: once a borrow_mut has been denied, the
\* same request is granted as soon as no view is live, and once a borrow has
\* been denied it is granted as soon as no exclusive view is live; in
\* particular a retry made in such a state is granted.
C17_DenialRecoverable ==
    /\ (denied.mut /\ refs = {} /\ refmuts = {}) => borrow_mut(refcell).some
    /\ (denied.shared /\ refmuts = {}) => borrow(refcell).some
    /\ (last.op = "borrow_mut" /\ last.preRefs = {} /\ last.preMuts = {}) => last.some
    /\ (last.op = "borrow" /\ last.preMuts = {}) => last.some
C17_Witness ==
    /\ denied.mut
    /\ denied.shared
    /\ refs = {}
    /\ refmuts = {}
    /\ last.op \in {"drop_ref", "drop_refmut"}

\* C18: while at least one Ref is live the interior value does not change,
\* and every read through a live Ref returns that value.
C18_SharedValueStable ==
    /\ [][(refs # {} /\ refs' # {}) => refcell'.value = refcell.value]_vars
    /\ [](last.op = "ref_deref" => last.val = refcell.value)
C18_Witness ==
    /\ last.op = "ref_deref"
    /\ Cardinality(last.preRefs) = 2
    /\ written # NoVal
    /\ last.val = refcell.value
    /\ denied.mut

\* C19: borrow, borrow_mut (granted or denied) and the release of a Ref or
\* RefMut leave the interior value unchanged; deref and deref_mut leave the
\* borrow state unchanged; the interior value changes only in a write
\* through a live RefMut.
C19_DisjointFrames ==
    [][
       /\ (last'.op \in {"borrow", "borrow_mut", "drop_ref", "drop_refmut"})
             => refcell'.value = refcell.value
       /\ (last'.op \in {"ref_deref", "refmut_deref", "refmut_deref_mut"})
             => (state' = state /\ refs' = refs /\ refmuts' = refmuts)
       /\ (refcell'.value # refcell.value)
             => (last'.op = "refmut_deref_mut" /\ refmuts # {} /\ refs = {}
                 /\ refcell'.value = last'.val)
    ]_vars
C19_Witness ==
    /\ last.op = "refmut_deref_mut"
    /\ last.val = refcell.value
    /\ last.val # NoVal
    /\ state = Exclusive
    /\ last.pre = Exclusive
====
